---- MODULE Spec2Model ----
(***************************************************************************)
(* Model of the columnar serialization primitives of                       *)
(* kudu/common/columnar_serialization.cc (BitWriter, ZeroNullValues,       *)
(* CopyNonNullBitmap, CopySelectedRows, g_pext_method) and of the          *)
(* CFileIterator declared in cfile/cfile_reader.h.                         *)
(*                                                                         *)
(* A 64-bit word and a byte are modelled as the set of their set bit       *)
(* positions (bit 0 = least significant); a buffer is a function from byte *)
(* index to byte.  Loads and stores are little-endian (x86_64).            *)
(***************************************************************************)
EXTENDS Integers, Sequences, FiniteSets, TLC

----------------------------------------------------------------------------
\* Bounds of the model.
MaxRows == 72
MaxDstIdx == 8
MaxPeriod == 3
Edge == 9
MaxZeroRows == 10
MaxSel == 3
MaxSrcCells == 3
NumThreads == 3
MaxCalls == 2
MaxBlocks == 3
MaxBlockRows == 3
MaxNext == 4

\* Width of uint64_t buffered_values_.
WordBits == 64

Word == 0..(WordBits - 1)
Byte == 0..7

Min(a, b) == IF a < b THEN a ELSE b

----------------------------------------------------------------------------
\* Bit operations on words.

\* v << k, truncated to 64 bits (0 <= k < 64)
Shl(v, k) == {b + k : b \in {c \in v : c + k < WordBits}}

\* v >> k (0 <= k < 64)
Shr(v, k) == {b - k : b \in {c \in v : c >= k}}

Xor(a, b) == (a \ b) \cup (b \ a)

\* __builtin_popcountll
Popcount(v) == Cardinality(v)

\* (bitmap[r/8] >> (r%8)) & 1
BitAt(buf, r) == (r % 8) \in buf[r \div 8]

\* UnalignedLoad<uint64_t>(buf + off)
UnalignedLoad64(buf, off) ==
  UNION {{8 * j + b : b \in buf[off + j]} : j \in 0..7}

\* memcpy(mem + off, &w, 8)
Store64(mem, off, w) ==
  [k \in DOMAIN mem |->
     IF off <= k /\ k < off + 8
       THEN {b - 8 * (k - off) : b \in {c \in w : c \div 8 = k - off}}
       ELSE mem[k]]

----------------------------------------------------------------------------
\* Parallel bit extraction, three strategies.

\* _pext_u64(val, mask): bit k of the result is the bit of val at the
\* position of the k-th set bit of mask.
PextU64(val, mask) ==
  {Cardinality({j \in mask : j < m}) : m \in (val \cap mask)}

\* zp7_pext_64_simple: portable bit-by-bit fallback.  The loop walks the
\* bit positions upwards; k[m] is the output position reached at input
\* position m.
Zp7Pext64Simple(val, mask) ==
  LET k[m \in 0..WordBits] ==
        IF m = 0 THEN 0
        ELSE k[m - 1] + (IF (m - 1) \in mask THEN 1 ELSE 0)
  IN {k[m] : m \in {b \in Word : b \in mask /\ b \in val}}

\* Carry-less multiplication of m by -2, low 64 bits: bit k of the product
\* is the parity of the bits of m below k.
ClmulNeg2(m) == {k \in Word : Cardinality({j \in m : j < k}) % 2 = 1}

\* -m (two's complement)
Neg(m) ==
  IF m = {} THEN {}
  ELSE LET l == CHOOSE x \in m : \A y \in m : x <= y
       IN {l} \cup {k \in Word : k > l /\ k \notin m}

\* The six masks of the parallel-prefix popcount of the unset mask bits.
RECURSIVE PppBits(_, _)
PppBits(m, n) ==
  IF n = 6 THEN <<Shl(Neg(m), 1)>>
  ELSE LET bit == ClmulNeg2(m) IN <<bit>> \o PppBits(m \cap bit, n + 1)

RECURSIVE PextPre(_, _, _)
PextPre(a, ppp, n) ==
  IF n > 6 THEN a
  ELSE PextPre((a \ ppp[n]) \cup Shr(a \cap ppp[n], 2 ^ (n - 1)), ppp, n + 1)

\* zp7_pext_64_clmul: carry-less-multiplication software fallback.
Zp7Pext64Clmul(val, mask) ==
  PextPre(val \cap mask, PppBits(Word \ mask, 1), 1)

\* The call wrappers and the PextMethod enumeration.
PextMethods == {"kPextInstruction", "kClmul", "kSimple"}

PextInstruction(val, mask) == PextU64(val, mask)
\* The wrapper passing its arguments in the wrong order.
PextZp7ClmulSwapped(val, mask) == Zp7Pext64Clmul(mask, val)

PextZp7Clmul(val, mask) == Zp7Pext64Clmul(val, mask)
PextZp7Simple(val, mask) == Zp7Pext64Simple(val, mask)

PextImpl(method, val, mask) ==
  CASE method = "kPextInstruction" -> PextInstruction(val, mask)
    [] method = "kClmul" -> PextZp7Clmul(val, mask)
    [] method = "kSimple" -> PextZp7Simple(val, mask)

----------------------------------------------------------------------------
VARIABLES
  \* common to the three serialization routines
  pc,                   \* position in the routine being run
  dst_idx, n_rows, non_null_bitmap, sizeof_type,
  \* the process
  g_pext_method,        \* the process-wide strategy
  \* CopyNonNullBitmap
  sel_bitmap,
  dst_non_null_bitmap,  \* the destination buffer
  bw,                   \* the BitWriter object
  i, rem_rows, src_pos, \* locals of CopyNonNullBitmapImpl
  dst_before,           \* the destination buffer before the call
  written,              \* indices of the destination bytes stored to
  put_log,              \* one record per BitWriter::Put
  flush_count,          \* number of calls of BitWriter::Flush
  \* ZeroNullValues
  dst_values_buf,
  values_before,        \* dst_values_buf before the call
  bitmap_before,        \* non_null_bitmap before the call
  zeroed,               \* indices of the cells passed to memset
  \* CopySelectedRows
  sel_rows, src_buf, dst_buf,
  src_before,           \* src_buf before the call
  dst_buf_before,       \* dst_buf before the call
  copied,               \* indices of the dst_buf bytes stored to
  \* the process and its threads
  phase,                \* "static_init" until the globals are initialized
  available,            \* the vector GetAvailablePextMethods() returned
  init_count,           \* number of stores to g_pext_method
  tpc,                  \* position of each thread
  calls,                \* calls of CopyNonNullBitmap each thread has made
  observed,             \* the values of g_pext_method each thread has read
  \* CFileIterator over a file
  file,                 \* the data blocks, each the sequence of its values
  idx_iter_, seeked_, dblk_data_, dblk_,
  status,               \* the Status the last call returned
  vec,                  \* the values the last GetNextValues returned
  last_call,            \* the last call: operation, argument, read fault
  before                \* the iterator fields and ordinal before that call

cvars == <<pc, dst_idx, n_rows, non_null_bitmap, sizeof_type>>

bvars == <<sel_bitmap, dst_non_null_bitmap, bw, i, rem_rows, src_pos,
           dst_before, written, put_log, flush_count>>

zvars == <<dst_values_buf, values_before, bitmap_before, zeroed>>

rvars == <<sel_rows, src_buf, dst_buf, src_before, dst_buf_before, copied>>

pvars == <<phase, available, init_count, tpc, calls, observed>>

ivars == <<file, idx_iter_, seeked_, dblk_data_, dblk_, status, vec,
           last_call, before>>

vars == <<cvars, g_pext_method, bvars, zvars, rvars, pvars, ivars>>

----------------------------------------------------------------------------
\* Input buffers.

\* A bitmap of len bytes in which bit b is set iff (b % p) < r.
Pattern(p, r, len) ==
  [k \in 0..(len - 1) |-> {b \in Byte : ((8 * k + b) % p) < r}]

\* Patterns with both set and unset bits, for the non-null bitmap.
MixedPatternIds ==
  {pr \in (2..MaxPeriod) \X (1..MaxPeriod) : pr[2] < pr[1]}

\* The same with the all-zero and the all-one bitmap, for the selection.
PatternIds == MixedPatternIds \cup {<<1, 0>>, <<1, 1>>}

\* Row counts within Edge of a multiple of the word size.
RowCounts == {n \in 0..MaxRows : n % 64 <= Edge \/ n % 64 >= 64 - Edge}

\* Bytes needed for n bits.
BytesFor(n) == (n + 7) \div 8

DstLen == (MaxDstIdx + MaxRows) \div 8 + 2

\* The destination is pre-filled with the sentinel byte 0xA5.
Sentinel == {0, 2, 5, 7}

----------------------------------------------------------------------------
\* struct BitWriter.  A frame f carries the writer, the destination memory
\* and the bookkeeping of the run.

\* BitWriter::Put keeping the wrong part of v after a full word is stored.
BitWriterPutBadCarry(f, v, num_bits, ctor) ==
  LET w == f.bw
      bv1 == w.buffered_values_ \cup Shl(v, w.num_buffered_bits_)
      nb1 == w.num_buffered_bits_ + num_bits
      full == nb1 >= 64
      nb2 == IF full THEN nb1 - 64 ELSE nb1
      entry == [v |-> v, num_bits |-> num_bits,
                before |-> w.num_buffered_bits_, after |-> nb2,
                flushed |-> w.flushed_, ctor |-> ctor]
  IN [f EXCEPT
        !.bw = [w EXCEPT
                  !.buffered_values_ = IF full THEN Shr(v, nb2) ELSE bv1,
                  !.num_buffered_bits_ = nb2,
                  !.dst_ = IF full THEN w.dst_ + 8 ELSE w.dst_],
        !.mem = IF full THEN Store64(f.mem, w.dst_, bv1) ELSE f.mem,
        !.written = IF full THEN f.written \cup (w.dst_..(w.dst_ + 7))
                    ELSE f.written,
        !.put_log = Append(f.put_log, entry)]

BitWriterPut(f, v, num_bits, ctor) ==
  LET w == f.bw
      bv1 == w.buffered_values_ \cup Shl(v, w.num_buffered_bits_)
      nb1 == w.num_buffered_bits_ + num_bits
      full == nb1 >= 64
      nb2 == IF full THEN nb1 - 64 ELSE nb1
      shift == num_bits - nb2
      entry == [v |-> v, num_bits |-> num_bits,
                before |-> w.num_buffered_bits_, after |-> nb2,
                flushed |-> w.flushed_, ctor |-> ctor]
  IN [f EXCEPT
        !.bw = [w EXCEPT
                  !.buffered_values_ =
                     IF full THEN (IF shift >= 64 THEN {} ELSE Shr(v, shift))
                     ELSE bv1,
                  !.num_buffered_bits_ = nb2,
                  !.dst_ = IF full THEN w.dst_ + 8 ELSE w.dst_],
        !.mem = IF full THEN Store64(f.mem, w.dst_, bv1) ELSE f.mem,
        !.written = IF full THEN f.written \cup (w.dst_..(w.dst_ + 7))
                    ELSE f.written,
        !.put_log = Append(f.put_log, entry)]

BitWriterNew(mem, skip_initial_bits) ==
  LET pos == skip_initial_bits \div 8
      preexisting_bits == skip_initial_bits % 8
      preexisting_val == {b \in mem[pos] : b < preexisting_bits}
      f0 == [bw |-> [dst_ |-> pos, buffered_values_ |-> {},
                     num_buffered_bits_ |-> 0, flushed_ |-> FALSE],
             mem |-> mem, i |-> 0, rem_rows |-> 0, src_pos |-> 0,
             written |-> {}, put_log |-> <<>>, flush_count |-> 0]
  IN BitWriterPut(f0, preexisting_val, preexisting_bits, TRUE)

\* The flush loop running once more when no bit is left.
RECURSIVE FlushLoopOneMore(_)
FlushLoopOneMore(f) ==
  IF f.bw.num_buffered_bits_ >= 0
    THEN FlushLoopOneMore([f EXCEPT
           !.mem = [f.mem EXCEPT ![f.bw.dst_] =
                      {b \in f.bw.buffered_values_ : b < 8}],
           !.written = f.written \cup {f.bw.dst_},
           !.bw = [f.bw EXCEPT
                     !.dst_ = f.bw.dst_ + 1,
                     !.buffered_values_ = Shr(f.bw.buffered_values_, 8),
                     !.num_buffered_bits_ = f.bw.num_buffered_bits_ - 8]])
    ELSE f

RECURSIVE FlushLoop(_)
FlushLoop(f) ==
  IF f.bw.num_buffered_bits_ > 0
    THEN FlushLoop([f EXCEPT
           !.mem = [f.mem EXCEPT ![f.bw.dst_] =
                      {b \in f.bw.buffered_values_ : b < 8}],
           !.written = f.written \cup {f.bw.dst_},
           !.bw = [f.bw EXCEPT
                     !.dst_ = f.bw.dst_ + 1,
                     !.buffered_values_ = Shr(f.bw.buffered_values_, 8),
                     !.num_buffered_bits_ = f.bw.num_buffered_bits_ - 8]])
    ELSE f

BitWriterFlush(f) ==
  LET g == FlushLoop(f)
  IN [g EXCEPT !.bw = [g.bw EXCEPT !.flushed_ = TRUE],
               !.flush_count = f.flush_count + 1]

----------------------------------------------------------------------------
\* CopyNonNullBitmapImpl<PextImpl>, one operator per step.

\* One iteration of the loop over the 64-bit words.
ImplForIter(method, nn, sel, f) ==
  LET sel_mask == UnalignedLoad64(sel, f.i * 8)
      num_bits == Popcount(sel_mask)
      non_nulls == UnalignedLoad64(nn, f.i * 8)
      extracted == PextImpl(method, non_nulls, sel_mask)
  IN [BitWriterPut(f, extracted, num_bits, FALSE) EXCEPT !.i = f.i + 1]

\* Leaving the loop: rem_rows and the advanced input pointers.
ImplForExit(n, f) ==
  [f EXCEPT !.rem_rows = n % 64, !.src_pos = (n \div 64) * 8]

\* One iteration of the loop over the remaining bytes.
ImplWhileIter(method, nn, sel, f) ==
  LET non_nulls == nn[f.src_pos]
      sel_mask == sel[f.src_pos]
      extracted == PextImpl(method, non_nulls, sel_mask)
      num_bits == Popcount(sel_mask)
  IN [BitWriterPut(f, extracted, num_bits, FALSE) EXCEPT
        !.src_pos = f.src_pos + 1, !.rem_rows = f.rem_rows - 8]

RECURSIVE ImplRun(_, _, _, _, _, _)
ImplRun(method, nn, sel, n, f, at) ==
  IF at = "for"
    THEN IF f.i < n \div 64
           THEN ImplRun(method, nn, sel, n, ImplForIter(method, nn, sel, f), "for")
           ELSE ImplRun(method, nn, sel, n, ImplForExit(n, f), "while")
    ELSE IF f.rem_rows > 0
           THEN ImplRun(method, nn, sel, n, ImplWhileIter(method, nn, sel, f), "while")
           ELSE BitWriterFlush(f)

\* The destination buffer a whole call leaves, for a given strategy.
CopyNonNullBitmapImpl(method, nn, sel, didx, n, mem) ==
  ImplRun(method, nn, sel, n, BitWriterNew(mem, didx), "for").mem

----------------------------------------------------------------------------
\* GetAvailablePextMethods() for a CPU (x86_64 build).
CPUs == [has_bmi2 : BOOLEAN, intel : BOOLEAN, has_pclmulqdq : BOOLEAN]

\* GetAvailablePextMethods() adding kSimple only when the list is empty.
GetAvailablePextMethodsElse(cpu) ==
  LET ret == (IF cpu.has_bmi2 /\ cpu.intel THEN <<"kPextInstruction">> ELSE <<>>)
             \o (IF cpu.has_pclmulqdq THEN <<"kClmul">> ELSE <<>>)
  IN IF ret = <<>> THEN <<"kSimple">> ELSE ret

GetAvailablePextMethods(cpu) ==
  (IF cpu.has_bmi2 /\ cpu.intel THEN <<"kPextInstruction">> ELSE <<>>)
  \o (IF cpu.has_pclmulqdq THEN <<"kClmul">> ELSE <<>>)
  \o <<"kSimple">>

----------------------------------------------------------------------------
\* The CopyNonNullBitmap state machine.

Frame == [bw |-> bw, mem |-> dst_non_null_bitmap, i |-> i,
          rem_rows |-> rem_rows, src_pos |-> src_pos, written |-> written,
          put_log |-> put_log, flush_count |-> flush_count]

SetFrame(f) ==
  /\ bw' = f.bw
  /\ dst_non_null_bitmap' = f.mem
  /\ i' = f.i
  /\ rem_rows' = f.rem_rows
  /\ src_pos' = f.src_pos
  /\ written' = f.written
  /\ put_log' = f.put_log
  /\ flush_count' = f.flush_count

NoWriter == [dst_ |-> 0, buffered_values_ |-> {}, num_buffered_bits_ |-> 0,
             flushed_ |-> FALSE]

CommonIdle ==
  /\ pc = "idle"
  /\ dst_idx = 0 /\ n_rows = 0 /\ sizeof_type = 0
  /\ non_null_bitmap = <<>>

BitmapIdle ==
  /\ sel_bitmap = <<>>
  /\ dst_non_null_bitmap = <<>> /\ dst_before = <<>>
  /\ bw = NoWriter
  /\ i = 0 /\ rem_rows = 0 /\ src_pos = 0
  /\ written = {} /\ put_log = <<>> /\ flush_count = 0

ZeroIdle ==
  /\ dst_values_buf = <<>> /\ values_before = <<>> /\ bitmap_before = <<>>
  /\ zeroed = {}

RowsIdle ==
  /\ sel_rows = <<>> /\ src_buf = <<>> /\ dst_buf = <<>>
  /\ src_before = <<>> /\ dst_buf_before = <<>> /\ copied = {}

Threads == 1..NumThreads

\* The process after its static initialization, with no thread calling.
ProcessIdle ==
  /\ phase = "main"
  /\ available = <<>> /\ init_count = 1
  /\ tpc = [t \in Threads |-> "idle"]
  /\ calls = [t \in Threads |-> 0]
  /\ observed = [t \in Threads |-> {}]

NoDecoder == [block |-> 0, pos |-> 0]

NoCall == [op |-> "none", arg |-> 0, fault |-> "none"]

NoFields == [seeked_ |-> FALSE, dblk_data_ |-> 0, dblk_ |-> NoDecoder,
             ordinal |-> 0]

IterIdle ==
  /\ file = <<>>
  /\ idx_iter_ = 0 /\ seeked_ = FALSE /\ dblk_data_ = 0 /\ dblk_ = NoDecoder
  /\ status = "OK" /\ vec = <<>> /\ last_call = NoCall /\ before = NoFields

InitBitmap ==
  /\ CommonIdle /\ BitmapIdle /\ ZeroIdle /\ RowsIdle /\ ProcessIdle
  /\ IterIdle
  /\ \E cpu \in CPUs : g_pext_method = GetAvailablePextMethods(cpu)[1]

\* The call: the dispatch on g_pext_method and the BitWriter constructor.
CopyNonNullBitmap ==
  /\ pc = "idle"
  /\ \E n \in RowCounts, d \in 0..MaxDstIdx, pb \in MixedPatternIds,
        ps \in PatternIds :
       LET mem == [k \in 0..(DstLen - 1) |-> Sentinel]
       IN /\ n_rows' = n
          /\ dst_idx' = d
          /\ non_null_bitmap' = Pattern(pb[1], pb[2], BytesFor(n))
          /\ sel_bitmap' = Pattern(ps[1], ps[2], BytesFor(n))
          /\ dst_before' = mem
          /\ \E f \in {BitWriterNew(mem, d)} : SetFrame(f)
  /\ pc' = "for"
  /\ UNCHANGED <<sizeof_type, g_pext_method, zvars, rvars, pvars, ivars>>

ForIter ==
  /\ pc = "for"
  /\ i < n_rows \div 64
  /\ \E f \in {ImplForIter(g_pext_method, non_null_bitmap, sel_bitmap, Frame)} :
       SetFrame(f)
  /\ UNCHANGED <<pc, g_pext_method, non_null_bitmap, sel_bitmap, dst_idx,
                 n_rows, dst_before, sizeof_type, zvars, rvars, pvars, ivars>>

ForExit ==
  /\ pc = "for"
  /\ ~(i < n_rows \div 64)
  /\ SetFrame(ImplForExit(n_rows, Frame))
  /\ pc' = "while"
  /\ UNCHANGED <<g_pext_method, non_null_bitmap, sel_bitmap, dst_idx,
                 n_rows, dst_before, sizeof_type, zvars, rvars, pvars, ivars>>

WhileIter ==
  /\ pc = "while"
  /\ rem_rows > 0
  /\ \E f \in {ImplWhileIter(g_pext_method, non_null_bitmap, sel_bitmap, Frame)} :
       SetFrame(f)
  /\ UNCHANGED <<pc, g_pext_method, non_null_bitmap, sel_bitmap, dst_idx,
                 n_rows, dst_before, sizeof_type, zvars, rvars, pvars, ivars>>

\* bw.Flush() and the return, which runs ~BitWriter.
FlushAndReturn ==
  /\ pc = "while"
  /\ ~(rem_rows > 0)
  /\ \E f \in {BitWriterFlush(Frame)} : SetFrame(f)
  /\ pc' = "done"
  /\ UNCHANGED <<g_pext_method, non_null_bitmap, sel_bitmap, dst_idx,
                 n_rows, dst_before, sizeof_type, zvars, rvars, pvars, ivars>>

NextBitmap ==
  \/ CopyNonNullBitmap
  \/ ForIter
  \/ ForExit
  \/ WhileIter
  \/ FlushAndReturn

SpecBitmap == InitBitmap /\ [][NextBitmap]_vars

----------------------------------------------------------------------------
\* Rows of [0, n_rows) selected by sel_bitmap, and the rank of a row.
SelRows == {r \in 0..(n_rows - 1) : BitAt(sel_bitmap, r)}

Rank(r) == Cardinality({q \in SelRows : q < r})

\* Bits appended by the loops of the call (all Puts but the constructor's).
RECURSIVE SumBits(_)
SumBits(log) ==
  IF log = <<>> THEN 0
  ELSE (IF Head(log).ctor THEN 0 ELSE Head(log).num_bits) + SumBits(Tail(log))

TotalBitsPut == SumBits(put_log)

\* Some Put of the run filled the 64-bit accumulator.
Wrapped == \E k \in DOMAIN put_log : put_log[k].before + put_log[k].num_bits >= 64

\* C1: after the call the destination bit dst_idx + k is the non-null bit
\* of the k-th selected row of [0, n_rows), and the bits below dst_idx are
\* as before the call.
C1_Compacted ==
  pc = "done" =>
    /\ \A r \in SelRows :
         BitAt(dst_non_null_bitmap, dst_idx + Rank(r))
           = BitAt(non_null_bitmap, r)
    /\ \A b \in 0..(dst_idx - 1) :
         BitAt(dst_non_null_bitmap, b) = BitAt(dst_before, b)

C1_Witness ==
  /\ pc = "done" /\ Wrapped
  /\ dst_idx % 8 # 0 /\ n_rows % 8 # 0
  /\ \E r \in SelRows : BitAt(non_null_bitmap, r)
  /\ \E r \in SelRows : ~BitAt(non_null_bitmap, r)

\* C2: the destination buffer the call leaves is byte for byte the one
\* each of the three strategies produces from the same inputs.
C2_StrategiesAgree ==
  pc = "done" =>
    \A m \in PextMethods :
      dst_non_null_bitmap =
        CopyNonNullBitmapImpl(m, non_null_bitmap, sel_bitmap, dst_idx,
                              n_rows, dst_before)

C2_Witness ==
  /\ pc = "done" /\ g_pext_method = "kClmul"
  /\ n_rows > 64 /\ dst_idx % 8 # 0
  /\ Cardinality(SelRows) > 8 /\ SelRows # 0..(n_rows - 1)
  /\ \E r \in SelRows : BitAt(non_null_bitmap, r)
  /\ \E r \in SelRows : ~BitAt(non_null_bitmap, r)

\* C3: the call appends one bit per selected row of [0, n_rows) and no
\* more: selection bits at index >= n_rows do not count.
C3_NoBitBeyondNRows ==
  pc = "done" => TotalBitsPut = Cardinality(SelRows)

\* C10: the assertions of BitWriter hold: every Put has 0 <= num_bits <= 64,
\* a value below 2^num_bits, an unflushed writer and leaves fewer than 64
\* buffered bits; Flush runs exactly once, at the end; the bytes stored to
\* are those of [dst_idx/8, ceil((dst_idx + bits put)/8)) and no other byte
\* of the destination changes.
C10_BitWriterAsserts ==
  /\ \A k \in DOMAIN put_log :
       /\ 0 <= put_log[k].num_bits /\ put_log[k].num_bits <= 64
       /\ \A b \in put_log[k].v : b < put_log[k].num_bits
       /\ 0 <= put_log[k].after /\ put_log[k].after < 64
       /\ ~put_log[k].flushed
  /\ pc \in {"for", "while"} =>
       /\ 0 <= bw.num_buffered_bits_ /\ bw.num_buffered_bits_ < 64
       /\ ~bw.flushed_ /\ flush_count = 0
  /\ pc = "done" =>
       /\ bw.flushed_ /\ flush_count = 1
       /\ written = (dst_idx \div 8)..(BytesFor(dst_idx + TotalBitsPut) - 1)
       /\ \A k \in DOMAIN dst_non_null_bitmap :
            k \notin written => dst_non_null_bitmap[k] = dst_before[k]

C10_Witness ==
  /\ pc = "done" /\ Wrapped /\ dst_idx % 8 # 0
  /\ n_rows % 8 # 0
  /\ \E k \in DOMAIN put_log : put_log[k].num_bits = 64

----------------------------------------------------------------------------
\* ZeroNullValues

\* The cell widths of the switch statements.
TypeSizes == {1, 2, 4, 8, 16}

\* A width the switch statements have no case for.
BadSizes == {3}

\* KUDU_ALIGN_DOWN(x, 8)
AlignDown8(x) == x - (x % 8)

\* ForEachUnsetBit(bitmap + byte_off, n_bits, func): the positions func is
\* called with, relative to the byte byte_off of the bitmap.
ForEachUnsetBit(bitmap, byte_off, n_bits) ==
  {position \in 0..(n_bits - 1) : ~BitAt(bitmap, 8 * byte_off + position)}

\* memset(buf + off, 0, len)
Memset0(buf, offs, len) ==
  [k \in DOMAIN buf |->
     IF \E o \in offs : o <= k /\ k < o + len THEN 0 ELSE buf[k]]

\* ZeroNullValuesImpl without the alignment slack in the bit count.
ZeroNullValuesImplShort(size, didx, n, buf, bitmap) ==
  LET aligned_dst_idx == AlignDown8(didx)
      aligned_n_sel == n
      aligned_values_base == aligned_dst_idx * size
      positions == ForEachUnsetBit(bitmap, aligned_dst_idx \div 8, aligned_n_sel)
  IN [buf |-> Memset0(buf, {aligned_values_base + q * size : q \in positions},
                      size),
      zeroed |-> {aligned_dst_idx + q : q \in positions}]

\* ZeroNullValuesImpl taking the bitmap positions relative to dst_idx.
ZeroNullValuesImplUnaligned(size, didx, n, buf, bitmap) ==
  LET aligned_dst_idx == AlignDown8(didx)
      aligned_n_sel == n + (didx - aligned_dst_idx)
      aligned_values_base == didx * size
      positions == ForEachUnsetBit(bitmap, aligned_dst_idx \div 8, aligned_n_sel)
  IN [buf |-> Memset0(buf, {aligned_values_base + q * size : q \in positions},
                      size),
      zeroed |-> {didx + q : q \in positions}]

ZeroNullValuesImpl(size, didx, n, buf, bitmap) ==
  LET aligned_dst_idx == AlignDown8(didx)
      aligned_n_sel == n + (didx - aligned_dst_idx)
      aligned_values_base == aligned_dst_idx * size
      positions == ForEachUnsetBit(bitmap, aligned_dst_idx \div 8, aligned_n_sel)
  IN [buf |-> Memset0(buf, {aligned_values_base + q * size : q \in positions},
                      size),
      zeroed |-> {aligned_dst_idx + q : q \in positions}]

\* Cells of the value buffer and of its bitmap; both reach past
\* dst_idx + n_rows.
ZeroCells == 2 * MaxDstIdx + MaxZeroRows + 16

\* Byte 0xA5, the pre-fill of the value buffers.
SentinelByte == 10 * 16 + 5

ZeroNullValues ==
  /\ pc = "idle"
  /\ \E size \in TypeSizes \cup BadSizes, d \in 0..(2 * MaxDstIdx),
        n \in 0..MaxZeroRows, pb \in PatternIds :
       LET buf == [k \in 0..(ZeroCells * size - 1) |-> SentinelByte]
           bitmap == Pattern(pb[1], pb[2], BytesFor(ZeroCells))
       IN /\ sizeof_type' = size
          /\ dst_idx' = d
          /\ n_rows' = n
          /\ non_null_bitmap' = bitmap
          /\ bitmap_before' = bitmap
          /\ values_before' = buf
          /\ IF size \in TypeSizes
               THEN \E res \in {ZeroNullValuesImpl(size, d, n, buf, bitmap)} :
                      /\ dst_values_buf' = res.buf
                      /\ zeroed' = res.zeroed
                      /\ pc' = "done"
               ELSE \* LOG(FATAL) << "bad size: "
                    /\ dst_values_buf' = buf
                    /\ zeroed' = {}
                    /\ pc' = "fatal"
  /\ UNCHANGED <<g_pext_method, bvars, rvars, pvars, ivars>>

InitZero ==
  /\ CommonIdle /\ BitmapIdle /\ ZeroIdle /\ RowsIdle /\ ProcessIdle
  /\ IterIdle
  /\ g_pext_method = "kSimple"

NextZero == ZeroNullValues

SpecZero == InitZero /\ [][NextZero]_vars

\* The bytes of cell c
CellBytes(c, size) == (c * size)..(c * size + size - 1)

\* C4: after ZeroNullValues every cell of [dst_idx, dst_idx + n_rows) whose
\* non-null bit is 0 has all its bytes zero.
C4_NullCellsZeroed ==
  pc = "done" /\ sizeof_type \in TypeSizes =>
    \A c \in dst_idx..(dst_idx + n_rows - 1) :
      ~BitAt(non_null_bitmap, c) =>
        \A k \in CellBytes(c, sizeof_type) : dst_values_buf[k] = 0

C4_Witness ==
  /\ pc = "done" /\ sizeof_type = 16
  /\ dst_idx % 8 # 0 /\ (dst_idx + n_rows) % 8 # 0 /\ dst_idx > 8
  /\ ~BitAt(non_null_bitmap, dst_idx + n_rows - 1)
  /\ \E c \in dst_idx..(dst_idx + n_rows - 1) : BitAt(non_null_bitmap, c)
  /\ \E c \in dst_idx..(dst_idx + n_rows - 1) : ~BitAt(non_null_bitmap, c)

\* C9: ZeroNullValues stores only to cells of
\* [align_down(dst_idx, 8), dst_idx + n_rows) whose non-null bit is 0, at
\* most 7 of them below dst_idx; every other byte of the buffer and the
\* bitmap are as before the call.
C9_ZeroFrame ==
  pc = "done" /\ sizeof_type \in TypeSizes =>
    /\ \A c \in zeroed :
         /\ AlignDown8(dst_idx) <= c /\ c < dst_idx + n_rows
         /\ ~BitAt(non_null_bitmap, c)
    /\ Cardinality({c \in zeroed : c < dst_idx}) <= 7
    /\ \A c \in 0..(ZeroCells - 1) :
         c \notin zeroed =>
           \A k \in CellBytes(c, sizeof_type) :
             dst_values_buf[k] = values_before[k]
    /\ non_null_bitmap = bitmap_before

C9_Witness ==
  /\ pc = "done" /\ sizeof_type = 4
  /\ dst_idx % 8 = 7 /\ n_rows > 0
  /\ \E c \in zeroed : c < dst_idx
  /\ \E c \in AlignDown8(dst_idx)..(dst_idx + n_rows - 1) :
       BitAt(non_null_bitmap, c)
  /\ ~BitAt(non_null_bitmap, dst_idx + n_rows)
  /\ dst_values_buf[(dst_idx + n_rows) * sizeof_type] = SentinelByte

----------------------------------------------------------------------------
\* CopySelectedRows

\* memcpy(dst_buf + pos, src_buf + idx * sizeof_type, sizeof_type) with the
\* source offset not scaled by the cell width.
CopyCellUnscaled(size, idx, src, dst, pos) ==
  [k \in DOMAIN dst |->
     IF pos <= k /\ k < pos + size THEN src[idx + (k - pos)] ELSE dst[k]]

\* memcpy(dst_buf + pos, src_buf + idx * sizeof_type, sizeof_type)
CopyCell(size, idx, src, dst, pos) ==
  [k \in DOMAIN dst |->
     IF pos <= k /\ k < pos + size
       THEN src[idx * size + (k - pos)] ELSE dst[k]]

\* The loop of CopySelectedRowsImpl; pos is the advance of dst_buf.
RECURSIVE CopyLoop(_, _, _, _, _, _)
CopyLoop(size, rows, src, dst, pos, stored) ==
  IF rows = <<>> THEN [dst_buf |-> dst, copied |-> stored]
  ELSE CopyLoop(size, Tail(rows), src,
                CopyCell(size, Head(rows), src, dst, pos),
                pos + size, stored \cup (pos..(pos + size - 1)))

CopySelectedRowsImpl(size, rows, src, dst) ==
  CopyLoop(size, rows, src, dst, 0, {})

\* Index sequences of at most MaxSel rows over MaxSrcCells source cells.
SelRowSeqs == UNION {[1..len -> 0..(MaxSrcCells - 1)] : len \in 0..MaxSel}

CopySelectedRows ==
  /\ pc = "idle"
  /\ \E size \in TypeSizes \cup BadSizes, rows \in SelRowSeqs :
       LET src == [k \in 0..(MaxSrcCells * size - 1) |-> k + 1]
           dst == [k \in 0..((MaxSel + 1) * size - 1) |-> SentinelByte]
       IN /\ sizeof_type' = size
          /\ sel_rows' = rows
          /\ src_buf' = src
          /\ src_before' = src
          /\ dst_buf_before' = dst
          /\ IF size \in TypeSizes
               THEN \E res \in {CopySelectedRowsImpl(size, rows, src, dst)} :
                      /\ dst_buf' = res.dst_buf
                      /\ copied' = res.copied
                      /\ pc' = "done"
               ELSE \* LOG(FATAL) << "unexpected type size: "
                    /\ dst_buf' = dst
                    /\ copied' = {}
                    /\ pc' = "fatal"
  /\ UNCHANGED <<dst_idx, n_rows, non_null_bitmap, g_pext_method, bvars, zvars,
                 pvars, ivars>>

InitRows ==
  /\ CommonIdle /\ BitmapIdle /\ ZeroIdle /\ RowsIdle /\ ProcessIdle
  /\ IterIdle
  /\ g_pext_method = "kSimple"

NextRows == CopySelectedRows

SpecRows == InitRows /\ [][NextRows]_vars

\* C5: the i-th destination cell is the source cell sel_rows[i]; the bytes
\* stored to are the first |sel_rows| * sizeof_type of dst_buf, the others
\* and the source buffer are as before the call.
C5_Gathered ==
  pc = "done" /\ sizeof_type \in TypeSizes =>
    /\ \A r \in 1..Len(sel_rows) :
         \A b \in 0..(sizeof_type - 1) :
           dst_buf[(r - 1) * sizeof_type + b]
             = src_before[sel_rows[r] * sizeof_type + b]
    /\ copied = 0..(Len(sel_rows) * sizeof_type - 1)
    /\ \A k \in DOMAIN dst_buf :
         k \notin copied => dst_buf[k] = dst_buf_before[k]
    /\ src_buf = src_before

C5_Witness ==
  /\ pc = "done" /\ sizeof_type = 16
  /\ Len(sel_rows) = 3
  /\ sel_rows[1] > sel_rows[2] /\ sel_rows[2] = sel_rows[3]

----------------------------------------------------------------------------
\* The process: the dynamic initialization of g_pext_method, then threads
\* calling CopyNonNullBitmap.

InitProcess ==
  /\ CommonIdle /\ BitmapIdle /\ ZeroIdle /\ RowsIdle /\ IterIdle
  /\ phase = "static_init"
  /\ g_pext_method = "zero_initialized"
  /\ available = <<>> /\ init_count = 0
  /\ tpc = [t \in Threads |-> "idle"]
  /\ calls = [t \in Threads |-> 0]
  /\ observed = [t \in Threads |-> {}]

\* PextMethod g_pext_method = GetAvailablePextMethods()[0];
\* runs before main() and before any function of the translation unit.
StaticInit ==
  /\ phase = "static_init"
  /\ \E cpu \in CPUs :
       /\ available' = GetAvailablePextMethods(cpu)
       /\ g_pext_method' = GetAvailablePextMethods(cpu)[1]
  /\ init_count' = init_count + 1
  /\ phase' = "main"
  /\ UNCHANGED <<cvars, bvars, zvars, rvars, ivars, tpc, calls, observed>>

\* A thread enters CopyNonNullBitmap: the switch reads g_pext_method.
ThreadDispatch(t) ==
  /\ phase = "main"
  /\ tpc[t] = "idle"
  /\ calls[t] < MaxCalls
  /\ observed' = [observed EXCEPT ![t] = @ \cup {g_pext_method}]
  /\ calls' = [calls EXCEPT ![t] = @ + 1]
  /\ tpc' = [tpc EXCEPT ![t] = "impl"]
  /\ UNCHANGED <<cvars, g_pext_method, bvars, zvars, rvars, ivars, phase,
                 available, init_count>>

\* The thread runs CopyNonNullBitmapImpl on its own buffers and returns.
ThreadReturn(t) ==
  /\ tpc[t] = "impl"
  /\ tpc' = [tpc EXCEPT ![t] = "idle"]
  /\ UNCHANGED <<cvars, g_pext_method, bvars, zvars, rvars, ivars, phase,
                 available, init_count, calls, observed>>

NextProcess ==
  \/ StaticInit
  \/ \E t \in Threads : ThreadDispatch(t)
  \/ \E t \in Threads : ThreadReturn(t)

SpecProcess == InitProcess /\ [][NextProcess]_vars

\* C6: g_pext_method is stored to once, before any thread reads it; every
\* call of every thread reads the same value, the first entry of
\* GetAvailablePextMethods(), whose last entry is kSimple.
C6_StrategyOnce ==
  /\ init_count <= 1
  /\ phase = "static_init" =>
       /\ init_count = 0
       /\ \A t \in Threads : observed[t] = {} /\ tpc[t] = "idle"
  /\ phase = "main" =>
       /\ init_count = 1
       /\ Len(available) >= 1
       /\ available[Len(available)] = "kSimple"
       /\ g_pext_method = available[1]
       /\ g_pext_method \in PextMethods
       /\ \A t \in Threads : observed[t] \subseteq {available[1]}

C6_Witness ==
  /\ phase = "main" /\ Len(available) = 3
  /\ \A t \in Threads : calls[t] = MaxCalls /\ observed[t] = {"kPextInstruction"}
  /\ \E t \in Threads : tpc[t] = "impl"
  /\ \E t \in Threads : tpc[t] = "idle"

----------------------------------------------------------------------------
\* CFileIterator.  The file is a sequence of data blocks; the positional
\* index maps the first ordinal of each block to the block.

\* The value stored at ordinal o.
ValueAt(o) == 100 + 7 * o

RECURSIVE SumSizes(_, _)
SumSizes(sizes, n) == IF n = 0 THEN 0 ELSE sizes[n] + SumSizes(sizes, n - 1)

\* The file whose blocks have the given sizes.
MakeFile(sizes) ==
  [b \in 1..Len(sizes) |->
     [q \in 1..sizes[b] |-> ValueAt(SumSizes(sizes, b - 1) + q - 1)]]

FileLayouts ==
  UNION {[1..k -> 1..MaxBlockRows] : k \in 1..MaxBlocks}

\* First ordinal of block b, and the row count of the file.
RECURSIVE FirstOrdinal(_, _)
FirstOrdinal(f, b) ==
  IF b <= 1 THEN 0 ELSE FirstOrdinal(f, b - 1) + Len(f[b - 1])

RowCount(f) == FirstOrdinal(f, Len(f) + 1)

\* The values a linear scan from ordinal 0 produces.
RECURSIVE LinearScan(_, _)
LinearScan(f, b) ==
  IF b > Len(f) THEN <<>> ELSE f[b] \o LinearScan(f, b + 1)

\* IndexTreeIterator: the last entry whose starting key is <= ord.
SeekAtOrBefore(f, ord) ==
  CHOOSE b \in 1..Len(f) :
    /\ FirstOrdinal(f, b) <= ord
    /\ \A c \in 1..Len(f) : FirstOrdinal(f, c) <= ord => c <= b

\* ReadCurrentDataBlock, successful: the block and a decoder at its start.
ReadCurrentDataBlock(b) ==
  [dblk_data_ |-> b, dblk_ |-> [block |-> b, pos |-> 0]]

\* GetCurrentOrdinal() for a decoder
OrdinalOf(f, dec) == FirstOrdinal(f, dec.block) + dec.pos

GetCurrentOrdinal == OrdinalOf(file, dblk_)

Fields == [seeked_ |-> seeked_, dblk_data_ |-> dblk_data_, dblk_ |-> dblk_,
           ordinal |-> GetCurrentOrdinal]

\* The loop of GetNextValues never moving to the last block of the file.
RECURSIVE NextLoopNoLastBlock(_, _, _, _, _, _)
NextLoopNoLastBlock(f, idx, dec, rem, acc, stop_at) ==
  LET blk == f[dec.block]
      take == Min(rem, Len(blk) - dec.pos)
      acc2 == acc \o SubSeq(blk, dec.pos + 1, dec.pos + take)
      dec2 == [dec EXCEPT !.pos = dec.pos + take]
  IN IF rem - take > 0 /\ idx < Len(f) - 1 /\ idx + 1 # stop_at
       THEN NextLoopNoLastBlock(f, idx + 1,
                                ReadCurrentDataBlock(idx + 1).dblk_,
                                rem - take, acc2, stop_at)
       ELSE [idx_iter_ |-> idx, dblk_ |-> dec2, vec |-> acc2,
             missing |-> rem - take]

\* The loop of GetNextValues: decode from the current block and move to
\* the following block while values are missing.  Stops short of loading
\* block stop_at (0: never).
RECURSIVE NextLoop(_, _, _, _, _, _)
NextLoop(f, idx, dec, rem, acc, stop_at) ==
  LET blk == f[dec.block]
      take == Min(rem, Len(blk) - dec.pos)
      acc2 == acc \o SubSeq(blk, dec.pos + 1, dec.pos + take)
      dec2 == [dec EXCEPT !.pos = dec.pos + take]
  IN IF rem - take > 0 /\ idx < Len(f) /\ idx + 1 # stop_at
       THEN NextLoop(f, idx + 1, ReadCurrentDataBlock(idx + 1).dblk_,
                     rem - take, acc2, stop_at)
       ELSE [idx_iter_ |-> idx, dblk_ |-> dec2, vec |-> acc2,
             missing |-> rem - take]

\* The iterator can be called: no read error has been returned.
Usable == status \in {"OK", "OutOfRange", "IllegalState"}

ReadErrors == {"IOError", "Corruption"}

\* What dblk_data_ and dblk_ can hold after a failed load of block b.
UndefinedData(b) == {dblk_data_, b, 0}
UndefinedDecoder(b) == {dblk_, [block |-> b, pos |-> 0], NoDecoder}

InitIter ==
  /\ CommonIdle /\ BitmapIdle /\ ZeroIdle /\ RowsIdle /\ ProcessIdle
  /\ g_pext_method = "kSimple"
  /\ \E sizes \in FileLayouts : file = MakeFile(sizes)
  /\ idx_iter_ = 0 /\ seeked_ = FALSE /\ dblk_data_ = 0 /\ dblk_ = NoDecoder
  /\ status = "OK" /\ vec = <<>> /\ last_call = NoCall /\ before = NoFields

IterFrame == UNCHANGED <<cvars, g_pext_method, bvars, zvars, rvars, pvars, file>>

\* SeekToOrdinal(ord_idx) with every block read succeeding.
SeekToOrdinal ==
  /\ Usable
  /\ \E ord \in 0..RowCount(file) :
       /\ last_call' = [op |-> "seek", arg |-> ord, fault |-> "none"]
       /\ IF ord >= RowCount(file)
            THEN /\ status' = "OutOfRange"
                 /\ UNCHANGED <<idx_iter_, seeked_, dblk_data_, dblk_>>
            ELSE LET b == SeekAtOrBefore(file, ord)
                     loaded == IF b # dblk_data_
                                 THEN ReadCurrentDataBlock(b)
                                 ELSE [dblk_data_ |-> dblk_data_, dblk_ |-> dblk_]
                 IN /\ idx_iter_' = b
                    /\ dblk_data_' = loaded.dblk_data_
                    /\ dblk_' = [loaded.dblk_ EXCEPT
                                   !.pos = ord - FirstOrdinal(file, b)]
                    /\ seeked_' = TRUE
                    /\ status' = "OK"
  /\ before' = Fields
  /\ vec' = <<>>
  /\ IterFrame

\* SeekToOrdinal(ord_idx) reporting success although the read failed.
SeekToOrdinalErrorSwallowed ==
  /\ Usable
  /\ \E ord \in 0..(RowCount(file) - 1), err \in ReadErrors :
       LET b == SeekAtOrBefore(file, ord)
       IN /\ b # dblk_data_
          /\ last_call' = [op |-> "seek", arg |-> ord, fault |-> err]
          /\ idx_iter_' = b
          /\ dblk_data_' \in UndefinedData(b)
          /\ dblk_' \in UndefinedDecoder(b)
          /\ status' = "OK"
  /\ before' = Fields
  /\ vec' = <<>>
  /\ UNCHANGED seeked_
  /\ IterFrame

\* SeekToOrdinal(ord_idx) when the read of the owning block fails.
SeekToOrdinalReadError ==
  /\ Usable
  /\ \E ord \in 0..(RowCount(file) - 1), err \in ReadErrors :
       LET b == SeekAtOrBefore(file, ord)
       IN /\ b # dblk_data_
          /\ last_call' = [op |-> "seek", arg |-> ord, fault |-> err]
          /\ idx_iter_' = b
          /\ dblk_data_' \in UndefinedData(b)
          /\ dblk_' \in UndefinedDecoder(b)
          /\ status' = err
  /\ before' = Fields
  /\ vec' = <<>>
  /\ UNCHANGED seeked_
  /\ IterFrame

\* GetNextValues(n, vec) with every block read succeeding.
GetNextValues ==
  /\ Usable
  /\ \E n \in 0..MaxNext :
       /\ last_call' = [op |-> "next", arg |-> n, fault |-> "none"]
       /\ IF ~seeked_
            THEN /\ status' = "IllegalState"
                 /\ vec' = <<>>
                 /\ UNCHANGED <<idx_iter_, dblk_data_, dblk_>>
            ELSE \E res \in {NextLoop(file, idx_iter_, dblk_, n, <<>>, 0)} :
                   /\ idx_iter_' = res.idx_iter_
                   /\ dblk_data_' = res.dblk_.block
                   /\ dblk_' = res.dblk_
                   /\ vec' = res.vec
                   /\ status' = "OK"
  /\ before' = Fields
  /\ UNCHANGED seeked_
  /\ IterFrame

\* GetNextValues(n, vec) when the read of a following block fails.
GetNextValuesReadError ==
  /\ Usable
  /\ seeked_
  /\ \E n \in 0..MaxNext, b \in 2..Len(file), err \in ReadErrors :
       \E res \in {NextLoop(file, idx_iter_, dblk_, n, <<>>, b)} :
         /\ res.missing > 0 /\ res.idx_iter_ = b - 1
         /\ last_call' = [op |-> "next", arg |-> n, fault |-> err]
         /\ idx_iter_' = b
         /\ dblk_data_' \in {res.dblk_.block, b, 0}
         /\ dblk_' \in {res.dblk_, [block |-> b, pos |-> 0], NoDecoder}
         /\ vec' = res.vec
         /\ status' = err
  /\ before' = Fields
  /\ UNCHANGED seeked_
  /\ IterFrame

NextIter ==
  \/ SeekToOrdinal
  \/ SeekToOrdinalReadError
  \/ GetNextValues
  \/ GetNextValuesReadError

SpecIter == InitIter /\ [][NextIter]_vars

\* C7: from any iterator state a SeekToOrdinal(o) with o < R succeeds and
\* leaves GetCurrentOrdinal() = o; GetNextValues(n) at ordinal o returns
\* the values of the linear scan at [o, min(o + n, R)) and leaves the
\* iterator at min(o + n, R).
C7_SeekAndScan ==
  LET R == RowCount(file)
      o == before.ordinal
      n == last_call.arg
  IN last_call.fault = "none" =>
       /\ last_call.op = "seek" /\ n < R =>
            status = "OK" /\ seeked_ /\ GetCurrentOrdinal = n
       /\ last_call.op = "next" /\ before.seeked_ =>
            /\ status = "OK"
            /\ vec = SubSeq(LinearScan(file, 1), o + 1, Min(o + n, R))
            /\ GetCurrentOrdinal = Min(o + n, R)

C7_Witness ==
  /\ Len(file) = 3 /\ Len(file[2]) = 1
  /\ last_call = [op |-> "next", arg |-> 4, fault |-> "none"]
  /\ before.seeked_ /\ before.dblk_.block = 1 /\ before.dblk_.pos > 0
  /\ Len(vec) = 4 /\ dblk_.block = 3

====
